---- MODULE Spec2Model ----
(***************************************************************************)
(* Model of stan::services::pathfinder::pathfinder_lbfgs_multi             *)
(* (src/src/stan/services/pathfinder/multi.hpp).                           *)
(*                                                                         *)
(* The calling thread writes the header rows, dispatches the paths with    *)
(* tbb::parallel_for, joins, aggregates the collected results, computes    *)
(* the PSIS weights, resamples and writes the timing trailer.  Each        *)
(* sub-range of the blocked_range is one task; tasks interleave freely.    *)
(***************************************************************************)
EXTENDS Integers, Sequences, FiniteSets, TLC

\* ------------------------------------------------------------------ bounds
MaxPaths == 2
MaxPathDraws == 2
MaxMultiDraws == 2
MaxParams == 1
MaxTailN == 2500



\* ------------------------------------------------------- machine integers
\* one 16-bit limb; unsigned int is two limbs, size_t is four (LP64)
Limb == 2 ^ 16

\* unsigned int value hi * 2^16 + lo
U32(hi, lo) == <<hi, lo>>

\* path + iter in unsigned int arithmetic (wraps modulo 2^32)
AddU32(p, k) ==
  LET s == p[2] + (k % Limb)
      c == s \div Limb
  IN  <<(p[1] + ((k \div Limb) % Limb) + c) % Limb, s % Limb>>

\* conversion of an int to size_t (two's complement, 64 bit), most
\* significant limb first
ToSizeT(n) ==
  LET ext == IF n < 0 THEN Limb - 1 ELSE 0
  IN  <<ext, ext, (n \div Limb) % Limb, n % Limb>>

RECURSIVE SizeLeqFrom(_, _, _)
SizeLeqFrom(a, b, k) ==
  IF k > Len(a) THEN TRUE
  ELSE IF a[k] < b[k] THEN TRUE
  ELSE IF a[k] > b[k] THEN FALSE
  ELSE SizeLeqFrom(a, b, k + 1)

\* a <= b on size_t values
SizeLeq(a, b) == SizeLeqFrom(a, b, 1)

\* the loop condition written with < in place of <=
LoopCond_Strict(i, m) == ~SizeLeq(ToSizeT(m - 1), ToSizeT(i))

\* the loop condition  i <= num_multi_draws - 1  with size_t i and int
\* num_multi_draws: the int difference is converted to size_t
LoopCond(i, m) == SizeLeq(ToSizeT(i), ToSizeT(m - 1))

\* ------------------------------------------------------------ error codes
OK == "OK"
SOFTWARE == "SOFTWARE"
\* a non-OK code other than SOFTWARE
DATAERR == "DATAERR"

\* ------------------------------------------------------------------ state
VARIABLES
  \* inputs of the call
  model_names,        \* model.constrained_param_names
  random_seed, path, num_multi_draws, num_paths, refresh,
  cuts,               \* where parallel_for split blocked_range(0, num_paths)
  single_ret,         \* what pathfinder_lbfgs_single returns for each index
  \* the calling thread
  pc, ret,
  \* sinks
  param_out, diag_out, log,
  \* shared between the workers
  individual_lp_ratios, individual_samples, lp_calls,
  \* the tasks of parallel_for
  tpc, iter, single_calls,
  \* aggregation
  num_returned_samples, lp_ratios, samples, filling_start_row, fill_i, blocks,
  \* resampling
  tail_len, weight_vals, rng, draw_i

inputs == <<model_names, random_seed, path, num_multi_draws, num_paths,
            refresh, cuts, single_ret>>
sinks == <<param_out, diag_out, log>>
shared == <<individual_lp_ratios, individual_samples, lp_calls>>
tasks == <<tpc, iter, single_calls>>
aggr == <<num_returned_samples, lp_ratios, samples, filling_start_row,
          fill_i, blocks>>
resamp == <<tail_len, weight_vals, rng, draw_i>>
vars == <<inputs, pc, ret, sinks, shared, tasks, aggr, resamp>>

\* ----------------------------------------------------------------- inputs
Paths == 0 .. (num_paths - 1)

\* the sub-ranges of blocked_range(0, num_paths): one per start index
Starts == {0} \cup cuts
RangeEnd(b) ==
  LET later == {c \in cuts \cup {num_paths} : c > b}
  IN  CHOOSE e \in later : \A f \in later : e <= f

\* ratios / sample columns of a path are tagged with path and draw number
RatiosOf(p, n) == [j \in 1 .. n |-> <<"ratio", p, j>>]
SamplesOf(p, n) == [j \in 1 .. n |-> <<"col", p, j>>]

\* the tuples pathfinder_lbfgs_single<true> may return for index i: a
\* successful path brings 1 .. MaxPathDraws draws, a path that returns
\* another code than OK or SOFTWARE one draw, a failed one none; path i
\* reports i + 1 evaluations
SingleRets(i) ==
  [status : {OK}, n : 1 .. MaxPathDraws, evals : {i + 1}]
    \cup [status : {DATAERR}, n : {1}, evals : {i + 1}]
    \cup [status : {SOFTWARE}, n : {0}, evals : {i + 1}]

\* the (random_seed, path, refresh) triples tried: both seeds, the smallest
\* and the largest unsigned int offset, refresh off and on.  The three are
\* never combined by the code, so they are varied together
CallConfigs ==
  {<<0, U32(0, 0), 0>>, <<1, U32(Limb - 1, Limb - 1), 1>>}

ModelNames(k) == [j \in 1 .. k |-> <<"theta", j>>]

Init ==
  /\ model_names = ModelNames(MaxParams)
  /\ \E c \in CallConfigs :
       random_seed = c[1] /\ path = c[2] /\ refresh = c[3]
  /\ num_multi_draws \in 0 .. MaxMultiDraws
  /\ num_paths \in 1 .. MaxPaths
  /\ cuts \in SUBSET (1 .. (num_paths - 1))
  /\ single_ret \in [Paths -> UNION {SingleRets(i) : i \in Paths}]
  /\ \A i \in Paths : single_ret[i] \in SingleRets(i)
  /\ pc = "header_param"
  /\ ret = "none"
  /\ param_out = <<>>
  /\ diag_out = <<>>
  /\ log = <<>>
  /\ individual_lp_ratios = <<>>
  /\ individual_samples = <<>>
  /\ lp_calls = 0
  /\ tpc = [b \in Starts |-> "call"]
  /\ iter = [b \in Starts |-> b]
  /\ single_calls = [i \in Paths |-> <<>>]
  /\ num_returned_samples = 0
  /\ lp_ratios = <<>>
  /\ samples = <<>>
  /\ filling_start_row = 0
  /\ fill_i = 0
  /\ blocks = <<>>
  /\ tail_len = <<>>
  /\ weight_vals = <<>>
  /\ rng = <<>>
  /\ draw_i = 0

\* ----------------------------------------------------------------- header
\* the two synthetic fields pushed in the wrong order
ParamNames_Swapped == model_names \o <<"lp__", "lp_approx__">>

ParamNames == model_names \o <<"lp_approx__", "lp__">>

NamesRow(names) == <<"names", names>>
ColRow(c) == <<"values", c>>
BlankRow == <<"blank">>
TextRow(prefix, value, suffix) == <<"text", prefix, value, suffix>>

\* parameter_writer(param_names)
WriteParamHeader ==
  /\ pc = "header_param"
  /\ param_out' = Append(param_out, NamesRow(ParamNames))
  /\ pc' = "header_diag"
  /\ UNCHANGED <<inputs, ret, diag_out, log, shared, tasks, aggr, resamp>>

\* diagnostic_writer(param_names); then parallel_for is entered
WriteDiagHeader ==
  /\ pc = "header_diag"
  /\ diag_out' = Append(diag_out, NamesRow(ParamNames))
  /\ pc' = "parallel"
  /\ UNCHANGED <<inputs, ret, param_out, log, shared, tasks, aggr, resamp>>

\* ------------------------------------------------------- parallel_for body
\* the stream id passed without the path index added
SingleArgs_NoOffset(i) ==
  [seed |-> random_seed, stream |-> path, init |-> i,
   init_writer |-> i, param_writer |-> i, diag_writer |-> i]

\* every path handed the per-path parameter writer of index 0
SingleArgs_SharedWriter(i) ==
  [seed |-> random_seed, stream |-> AddU32(path, i), init |-> i,
   init_writer |-> i, param_writer |-> 0, diag_writer |-> i]

\* the arguments of the call of pathfinder_lbfgs_single for index i
SingleArgs(i) ==
  [seed |-> random_seed, stream |-> AddU32(path, i), init |-> i,
   init_writer |-> i, param_writer |-> i, diag_writer |-> i]

\* a task calls pathfinder_lbfgs_single for its current index
CallSingle(b) ==
  /\ pc = "parallel"
  /\ tpc[b] = "call"
  /\ single_calls' = [single_calls EXCEPT
                        ![iter[b]] = Append(@, SingleArgs(iter[b]))]
  /\ tpc' = [tpc EXCEPT ![b] = "running"]
  /\ UNCHANGED <<inputs, pc, ret, sinks, shared, iter, aggr, resamp>>

FailedLine(i) == <<"Pathfinder iteration: ", i, " failed.">>

\* a SOFTWARE status logged, but the results appended all the same
ReturnSingle_KeepGoing(b) ==
  /\ pc = "parallel"
  /\ tpc[b] = "running"
  /\ log' = IF single_ret[iter[b]].status = SOFTWARE
              THEN Append(log, FailedLine(iter[b]))
              ELSE log
  /\ tpc' = [tpc EXCEPT ![b] = "emplace_ratios"]
  /\ UNCHANGED <<inputs, pc, ret, param_out, diag_out, shared, iter,
                 single_calls, aggr, resamp>>

\* every status other than OK taken for a failure
ReturnSingle_FailNotOK(b) ==
  /\ pc = "parallel"
  /\ tpc[b] = "running"
  /\ IF single_ret[iter[b]].status # OK
       THEN /\ log' = Append(log, FailedLine(iter[b]))
            /\ tpc' = [tpc EXCEPT ![b] = "done"]
       ELSE /\ log' = log
            /\ tpc' = [tpc EXCEPT ![b] = "emplace_ratios"]
  /\ UNCHANGED <<inputs, pc, ret, param_out, diag_out, shared, iter,
                 single_calls, aggr, resamp>>

\* the call returns; a SOFTWARE status is logged and the lambda returns
ReturnSingle(b) ==
  /\ pc = "parallel"
  /\ tpc[b] = "running"
  /\ IF single_ret[iter[b]].status = SOFTWARE
       THEN /\ log' = Append(log, FailedLine(iter[b]))
            /\ tpc' = [tpc EXCEPT ![b] = "done"]
       ELSE /\ log' = log
            /\ tpc' = [tpc EXCEPT ![b] = "emplace_ratios"]
  /\ UNCHANGED <<inputs, pc, ret, param_out, diag_out, shared, iter,
                 single_calls, aggr, resamp>>

\* individual_lp_ratios.emplace_back(...)
EmplaceRatios(b) ==
  /\ pc = "parallel"
  /\ tpc[b] = "emplace_ratios"
  /\ individual_lp_ratios' =
       Append(individual_lp_ratios,
              RatiosOf(iter[b], single_ret[iter[b]].n))
  /\ tpc' = [tpc EXCEPT ![b] = "emplace_samples"]
  /\ UNCHANGED <<inputs, pc, ret, sinks, individual_samples, lp_calls, iter,
                 single_calls, aggr, resamp>>

\* individual_samples.emplace_back(...)
EmplaceSamples(b) ==
  /\ pc = "parallel"
  /\ tpc[b] = "emplace_samples"
  /\ individual_samples' =
       Append(individual_samples,
              SamplesOf(iter[b], single_ret[iter[b]].n))
  /\ tpc' = [tpc EXCEPT ![b] = "add_lp_calls"]
  /\ UNCHANGED <<inputs, pc, ret, sinks, individual_lp_ratios, lp_calls,
                 iter, single_calls, aggr, resamp>>

\* lp_calls += eval count (atomic), ++iter, loop test
AddLpCalls(b) ==
  /\ pc = "parallel"
  /\ tpc[b] = "add_lp_calls"
  /\ lp_calls' = lp_calls + single_ret[iter[b]].evals
  /\ iter' = [iter EXCEPT ![b] = @ + 1]
  /\ tpc' = [tpc EXCEPT ![b] =
               IF iter[b] + 1 < RangeEnd(b) THEN "call" ELSE "done"]
  /\ UNCHANGED <<inputs, pc, ret, sinks, individual_lp_ratios,
                 individual_samples, single_calls, aggr, resamp>>

\* parallel_for returning while sub-ranges are still being processed
Join_NoWait ==
  /\ pc = "parallel"
  /\ pc' = "check"
  /\ UNCHANGED <<inputs, ret, sinks, shared, tasks, aggr, resamp>>

\* parallel_for returns when every sub-range has been processed
Join ==
  /\ pc = "parallel"
  /\ \A b \in Starts : tpc[b] = "done"
  /\ pc' = "check"
  /\ UNCHANGED <<inputs, ret, sinks, shared, tasks, aggr, resamp>>

\* ------------------------------------------------------ success check
NoneRanLine == <<"No pathfinders ran successfully">>
TotalEvalsLine(n) == <<"Total log probability function evaluations:", n>>

\* successful_pathfinders = individual_samples.size()
successful_pathfinders == Len(individual_samples)

\* the check for zero successes left out
CheckSuccess_NoCheck ==
  /\ pc = "check"
  /\ log' = IF refresh # 0
              THEN Append(log, TotalEvalsLine(lp_calls))
              ELSE log
  /\ pc' = "count"
  /\ UNCHANGED <<inputs, ret, param_out, diag_out, shared, tasks, aggr,
                 resamp>>

\* zero successes: log and return SOFTWARE; otherwise the evaluation
\* total is logged unless refresh is 0
CheckSuccess ==
  /\ pc = "check"
  /\ IF successful_pathfinders = 0
       THEN /\ log' = Append(log, NoneRanLine)
            /\ ret' = SOFTWARE
            /\ pc' = "failed"
       ELSE /\ log' = IF refresh # 0
                        THEN Append(log, TotalEvalsLine(lp_calls))
                        ELSE log
            /\ ret' = ret
            /\ pc' = "count"
  /\ UNCHANGED <<inputs, param_out, diag_out, shared, tasks, aggr, resamp>>

\* ----------------------------------------------------------- aggregation
RECURSIVE SumSizes(_)
SumSizes(s) == IF s = <<>> THEN 0 ELSE Len(Head(s)) + SumSizes(Tail(s))

Uninit == <<"uninit">>
Junk == <<"junk">>

\* the loop summing ilpr.size(), and the allocation of lp_ratios / samples
CountSamples ==
  /\ pc = "count"
  /\ num_returned_samples' = SumSizes(individual_lp_ratios)
  /\ lp_ratios' = [k \in 1 .. SumSizes(individual_lp_ratios) |-> Uninit]
  /\ samples' = [k \in 1 .. SumSizes(individual_lp_ratios) |-> Uninit]
  /\ filling_start_row' = 0
  /\ fill_i' = 0
  /\ pc' = "fill"
  /\ UNCHANGED <<inputs, ret, sinks, shared, tasks, blocks, resamp>>

\* dst.segment(start, n) = src, read as far as the destination block goes;
\* a source shorter than the block is read past its end
AssignBlock(dst, start, n, src) ==
  [k \in 1 .. Len(dst) |->
     IF k > start /\ k <= start + n
       THEN IF k - start <= Len(src) THEN src[k - start] ELSE Junk
       ELSE dst[k]]

\* the offset advanced by one column instead of the block's width
NextStart_ByOne(start, n) == start + 1

\* the offset after one block
NextStart(start, n) == start + n

\* one iteration of the filling loop.  A sample matrix whose column count
\* differs from the block is undefined behaviour: eigen_assert aborts, or
\* the assignment runs over the block's extent
FillBlock ==
  /\ pc = "fill"
  /\ fill_i < successful_pathfinders
  /\ LET individ_num_samples == Len(individual_lp_ratios[fill_i + 1])
         src == individual_samples[fill_i + 1]
         copy ==
           /\ lp_ratios' = AssignBlock(lp_ratios, filling_start_row,
                                       individ_num_samples,
                                       individual_lp_ratios[fill_i + 1])
           /\ samples' = AssignBlock(samples, filling_start_row,
                                     individ_num_samples, src)
           /\ blocks' = Append(blocks,
                               <<filling_start_row, individ_num_samples>>)
           /\ filling_start_row' = NextStart(filling_start_row,
                                             individ_num_samples)
           /\ fill_i' = fill_i + 1
           /\ pc' = IF fill_i + 1 < successful_pathfinders
                      THEN "fill" ELSE "weights"
         abort ==
           /\ pc' = "aborted"
           /\ UNCHANGED <<lp_ratios, samples, blocks, filling_start_row,
                          fill_i>>
     IN  IF Len(src) = individ_num_samples THEN copy ELSE (copy \/ abort)
  /\ UNCHANGED <<inputs, ret, sinks, shared, tasks, num_returned_samples,
                 resamp>>

\* ------------------------------------------------------------ resampling
\* psis_weights returns one non-negative weight per ratio, not normalised:
\* the vectors tried are all zero, all equal, and increasing from zero
WeightVectors(n) ==
  {[k \in 1 .. n |-> 0], [k \in 1 .. n |-> 1], [k \in 1 .. n |-> k - 1]}

\* a real number (num / den) * sqrt(rad), kept exact
Real(num, den, rad) == [num |-> num, den |-> den, rad |-> rad]

\* a <= b for two such non-negative numbers, by their squares
RealLeq(a, b) ==
  a.num * a.num * a.rad * b.den * b.den
    <= b.num * b.num * b.rad * a.den * a.den

\* std::min(a, b): b if b < a, else a
RealMin(a, b) == IF RealLeq(a, b) THEN a ELSE b

\* the larger of the two terms taken
TailLen_Max(n) ==
  IF RealLeq(Real(n, 5, 1), Real(3, 1, n)) THEN Real(3, 1, n)
  ELSE Real(n, 5, 1)

\* std::min(0.2 * num_returned_samples, 3 * std::sqrt(num_returned_samples))
TailLen(n) == RealMin(Real(n, 5, 1), Real(3, 1, n))

\* tail_len, then psis_weights(lp_ratios, tail_len, logger)
ComputeWeights ==
  /\ pc = "weights"
  /\ tail_len' = TailLen(num_returned_samples)
  /\ weight_vals' \in WeightVectors(Len(lp_ratios))
  /\ pc' = "rng"
  /\ UNCHANGED <<inputs, ret, sinks, shared, tasks, aggr, rng, draw_i>>

\* the stream id moved on by the number of successful paths
ResampleStream_Shifted == AddU32(path, successful_pathfinders)

\* util::create_rng(random_seed, path)
ResampleStream == path

CreateRng ==
  /\ pc = "rng"
  /\ rng' = [seed |-> random_seed, stream |-> ResampleStream, n |-> 0]
  /\ draw_i' = 0
  /\ pc' = "draw"
  /\ UNCHANGED <<inputs, ret, sinks, shared, tasks, aggr, tail_len,
                 weight_vals>>

RECURSIVE SumWeights(_, _)
SumWeights(w, k) == IF k = 0 THEN 0 ELSE w[k] + SumWeights(w, k - 1)

\* the n-th output of the generator: a function of seed, stream and n only
RngOutput(g) == 3 * g.seed + g.stream[1] + g.stream[2] + 2 * g.n

\* discrete_distribution: index k (from 0) with probability w[k] / sum;
\* with an all-zero vector every probability is NaN and the alias table
\* degenerates to a uniform choice
DrawIndex(g, w) ==
  LET total == SumWeights(w, Len(w))
  IN  IF total = 0
        THEN RngOutput(g) % Len(w)
        ELSE LET t == RngOutput(g) % total
             IN  (CHOOSE k \in 1 .. Len(w) :
                    /\ SumWeights(w, k) > t
                    /\ \A j \in 1 .. (k - 1) : SumWeights(w, j) <= t) - 1

MaxLoop == MaxMultiDraws + 1

\* one iteration of  for (size_t i = 0; i <= num_multi_draws - 1; ++i)
Draw ==
  /\ pc = "draw"
  /\ LoopCond(draw_i, num_multi_draws)
  /\ draw_i < MaxLoop
  /\ param_out' = Append(param_out,
                         ColRow(samples[DrawIndex(rng, weight_vals) + 1]))
  /\ rng' = [rng EXCEPT !.n = @ + 1]
  /\ draw_i' = draw_i + 1
  /\ UNCHANGED <<inputs, pc, ret, diag_out, log, shared, tasks, aggr,
                 tail_len, weight_vals>>

\* ---------------------------------------------------------------- trailer
time_header == "Elapsed Time: "
Pad == <<"spaces", Len(time_header)>>

\* the loop ends; parameter_writer()
EndDraws ==
  /\ pc = "draw"
  /\ ~LoopCond(draw_i, num_multi_draws)
  /\ param_out' = Append(param_out, BlankRow)
  /\ pc' = "optim_time"
  /\ UNCHANGED <<inputs, ret, diag_out, log, shared, tasks, aggr, resamp>>

WriteOptimTime ==
  /\ pc = "optim_time"
  /\ param_out' = Append(param_out,
       TextRow(time_header, "pathfinders_delta_time",
               " seconds (Pathfinders)"))
  /\ pc' = "psis_time"
  /\ UNCHANGED <<inputs, ret, diag_out, log, shared, tasks, aggr, resamp>>

WritePsisTime ==
  /\ pc = "psis_time"
  /\ param_out' = Append(param_out,
       TextRow(Pad, "psis_delta_time", " seconds (PSIS)"))
  /\ pc' = "total_time"
  /\ UNCHANGED <<inputs, ret, diag_out, log, shared, tasks, aggr, resamp>>

WriteTotalTime ==
  /\ pc = "total_time"
  /\ param_out' = Append(param_out,
       TextRow(Pad, "pathfinders_delta_time + psis_delta_time",
               " seconds (Total)"))
  /\ pc' = "final_break"
  /\ UNCHANGED <<inputs, ret, diag_out, log, shared, tasks, aggr, resamp>>

\* parameter_writer(); return 0
Finish ==
  /\ pc = "final_break"
  /\ param_out' = Append(param_out, BlankRow)
  /\ ret' = OK
  /\ pc' = "done"
  /\ UNCHANGED <<inputs, diag_out, log, shared, tasks, aggr, resamp>>

\* ---------------------------------------------------------- specification
Next ==
  \/ WriteParamHeader
  \/ WriteDiagHeader
  \/ \E b \in Starts : CallSingle(b)
  \/ \E b \in Starts : ReturnSingle(b)
  \/ \E b \in Starts : EmplaceRatios(b)
  \/ \E b \in Starts : EmplaceSamples(b)
  \/ \E b \in Starts : AddLpCalls(b)
  \/ Join
  \/ CheckSuccess
  \/ CountSamples
  \/ FillBlock
  \/ ComputeWeights
  \/ CreateRng
  \/ Draw
  \/ EndDraws
  \/ WriteOptimTime
  \/ WritePsisTime
  \/ WriteTotalTime
  \/ Finish

Spec == Init /\ [][Next]_vars

\* ------------------------------------------------- tail length on its own
\* tail_len as a function of the number of aggregated ratios
TailInit ==
  /\ model_names = ModelNames(MaxParams)
  /\ random_seed = 0 /\ path = U32(0, 0) /\ refresh = 0
  /\ num_multi_draws = 0
  /\ num_paths = 1
  /\ cuts = {}
  /\ single_ret = [i \in {0} |-> [status |-> OK, n |-> 1, evals |-> 1]]
  /\ pc = "tail_in"
  /\ ret = "none"
  /\ param_out = <<>> /\ diag_out = <<>> /\ log = <<>>
  /\ individual_lp_ratios = <<>> /\ individual_samples = <<>>
  /\ lp_calls = 0
  /\ tpc = [b \in {0} |-> "done"]
  /\ iter = [b \in {0} |-> 1]
  /\ single_calls = [i \in {0} |-> <<>>]
  /\ num_returned_samples \in 1 .. MaxTailN
  /\ lp_ratios = <<>> /\ samples = <<>>
  /\ filling_start_row = 0 /\ fill_i = 0 /\ blocks = <<>>
  /\ tail_len = <<>>
  /\ weight_vals = <<>> /\ rng = <<>> /\ draw_i = 0

TailStep ==
  /\ pc = "tail_in"
  /\ tail_len' = TailLen(num_returned_samples)
  /\ pc' = "tail_out"
  /\ UNCHANGED <<inputs, ret, sinks, shared, tasks, aggr, weight_vals, rng,
                 draw_i>>

TailNext == TailStep

TailSpec == TailInit /\ [][TailNext]_vars

\* ------------------------------------------------------------ properties
\* parallel_for has returned
Joined == pc \notin {"header_param", "header_diag", "parallel"}

\* path i was run and did not report SOFTWARE
Succeeded(i) == Len(single_calls[i]) > 0 /\ single_ret[i].status # SOFTWARE

\* the path a collected ratio array / sample matrix came from
PathOf(a) == a[1][2]

ValueRows(out) == {k \in 1 .. Len(out) : out[k][1] = "values"}
NameRows(out) == {k \in 1 .. Len(out) : out[k][1] = "names"}

RECURSIVE SumOver(_, _)
\* sum of f[i] over the finite set S
SumOver(f, S) ==
  IF S = {} THEN 0
  ELSE LET x == CHOOSE y \in S : TRUE IN f[x] + SumOver(f, S \ {x})

AllZero(w) == \A k \in 1 .. Len(w) : w[k] = 0

\* C1: after the join every path index has been run exactly once, and
\* every path that does not report failure has been collected.
C1_NoEarlyAbort ==
  Joined =>
    \A i \in Paths :
      /\ Len(single_calls[i]) = 1
      /\ single_ret[i].status # SOFTWARE =>
           \E k \in 1 .. Len(individual_samples) :
             individual_samples[k] = SamplesOf(i, single_ret[i].n)

\* C2: after the join the i-th collected ratio array and the i-th collected
\* sample matrix come from the same path, so their sizes agree.
C2_SameOrder ==
  Joined =>
    \A k \in 1 .. Len(individual_samples) :
      /\ PathOf(individual_lp_ratios[k]) = PathOf(individual_samples[k])
      /\ Len(individual_lp_ratios[k]) = Len(individual_samples[k])

\* C3: with num_multi_draws = 0 no draw row is ever written to the
\* parameter sink.
C3_ZeroDrawsNoRows ==
  num_multi_draws = 0 => ValueRows(param_out) = {}

\* C4: with zero successful paths the call logs "No pathfinders ran
\* successfully" and returns SOFTWARE; both sinks hold the header row and
\* nothing else, and aggregation, weights and resampling are not started.
C4_ZeroSuccess ==
  (Joined /\ successful_pathfinders = 0) =>
    /\ pc \in {"check", "failed"}
    /\ Len(param_out) = 1 /\ NameRows(param_out) = {1}
    /\ Len(diag_out) = 1 /\ NameRows(diag_out) = {1}
    /\ num_returned_samples = 0 /\ lp_ratios = <<>> /\ samples = <<>>
    /\ blocks = <<>> /\ weight_vals = <<>> /\ rng = <<>> /\ draw_i = 0
    /\ pc = "failed" =>
         /\ ret = SOFTWARE
         /\ log # <<>> /\ log[Len(log)] = NoneRanLine
    /\ pc = "check" => ret = "none"

C4_Witness ==
  /\ pc = "failed"
  /\ successful_pathfinders = 0
  /\ \A i \in Paths : Len(single_calls[i]) = 1
  /\ num_paths = MaxPaths

\* C5: an all-zero weight vector ends the call with a failure status; no
\* generator is built from it and no draw row is written.
C5_ZeroWeightsIsError ==
  (weight_vals # <<>> /\ AllZero(weight_vals)) =>
    /\ rng = <<>>
    /\ ValueRows(param_out) = {}
    /\ ret # OK

\* C6: the (seed, stream) pair of the resampling generator differs from the
\* pair passed to every path.
C6_StreamIsolation ==
  rng # <<>> =>
    \A i \in Paths : \A k \in 1 .. Len(single_calls[i]) :
      <<single_calls[i][k].seed, single_calls[i][k].stream>>
        # <<rng.seed, rng.stream>>

\* C7: once the filling loop has ended, the aggregated ratio array and the
\* aggregated sample matrix both have as many entries as the collected
\* paths have draws, the offset has reached that sum, and the blocks tile
\* the columns 0 .. sum-1 in order without gap or overlap.
C7_AggregatedSize ==
  LET total == SumOver([i \in Paths |-> single_ret[i].n],
                       {i \in Paths : Succeeded(i)})
  IN  pc \in {"weights", "rng", "draw", "optim_time", "psis_time",
              "total_time", "final_break", "done"} =>
        /\ Len(lp_ratios) = total
        /\ Len(samples) = total
        /\ filling_start_row = total
        /\ Len(blocks) = Cardinality({i \in Paths : Succeeded(i)})
        /\ blocks[1][1] = 0
        /\ \A k \in 1 .. Len(blocks) :
             /\ blocks[k][2] =
                  single_ret[PathOf(individual_lp_ratios[k])].n
             /\ blocks[k][1] + blocks[k][2] =
                  IF k < Len(blocks) THEN blocks[k + 1][1] ELSE total

C7_Witness ==
  /\ pc = "weights"
  /\ Len(blocks) = 2
  /\ blocks[1][2] # blocks[2][2]

\* C8: after the join lp_calls is the sum of the evaluation counts returned
\* by all paths that were run, failed ones included.
C8_AllEvalsCounted ==
  Joined =>
    lp_calls = SumOver([i \in Paths |-> single_ret[i].evals],
                       {i \in Paths : Len(single_calls[i]) > 0})

\* a header row: the model's names, then "lp_approx__", then "lp__"
IsHeader(row) ==
  /\ row[1] = "names"
  /\ Len(row[2]) = Len(model_names) + 2
  /\ SubSeq(row[2], 1, Len(model_names)) = model_names
  /\ row[2][Len(model_names) + 1] = "lp_approx__"
  /\ row[2][Len(model_names) + 2] = "lp__"

\* C9: when the first path starts, each of the two sinks holds exactly one
\* header row; the parameter sink never gets a second one and the
\* diagnostic sink never gets anything else.
C9_HeaderFirst ==
  /\ (pc = "parallel" \/ \E i \in Paths : single_calls[i] # <<>>) =>
       /\ param_out # <<>> /\ IsHeader(param_out[1])
       /\ diag_out # <<>> /\ IsHeader(diag_out[1])
  /\ NameRows(param_out) \subseteq {1}
  /\ Len(diag_out) <= 1
  /\ pc = "parallel" => Len(param_out) = 1

C9_Witness ==
  /\ pc = "parallel"
  /\ \E b \in Starts : tpc[b] = "running"
  /\ \A b \in Starts : tpc[b] \in {"call", "running"}

\* C10: with num_multi_draws >= 1, each draw is written when it is drawn,
\* and at the return the parameter sink holds exactly the header, then
\* num_multi_draws draw rows (columns of the aggregated matrix), a blank
\* row, the three timing lines and a final blank row; the call returns OK.
C10_WriteOrder ==
  num_multi_draws >= 1 =>
    /\ pc = "draw" =>
         /\ Len(param_out) = 1 + draw_i
         /\ draw_i <= num_multi_draws
    /\ pc = "done" =>
         /\ ret = OK
         /\ Len(param_out) = num_multi_draws + 6
         /\ IsHeader(param_out[1])
         /\ \A k \in 2 .. (num_multi_draws + 1) :
              /\ param_out[k][1] = "values"
              /\ \E c \in 1 .. num_returned_samples :
                   param_out[k][2] = samples[c]
         /\ SubSeq(param_out, num_multi_draws + 2, num_multi_draws + 6) =
              << <<"blank">>,
                 <<"text", "Elapsed Time: ", "pathfinders_delta_time",
                   " seconds (Pathfinders)">>,
                 <<"text", <<"spaces", 14>>, "psis_delta_time",
                   " seconds (PSIS)">>,
                 <<"text", <<"spaces", 14>>,
                   "pathfinders_delta_time + psis_delta_time",
                   " seconds (Total)">>,
                 <<"blank">> >>

C10_Witness ==
  /\ pc = "done"
  /\ num_multi_draws = MaxMultiDraws
  /\ successful_pathfinders >= 1

\* the aggregation is complete
Aggregated ==
  pc \in {"weights", "rng", "draw", "optim_time", "psis_time", "total_time",
          "final_break", "done"}

\* the generator is in use
Resampling ==
  pc \in {"draw", "optim_time", "psis_time", "total_time", "final_break",
          "done"}

\* C11: the success check, the aggregation, the weights and the draws come
\* after every sub-range has been processed: nothing of them exists before
\* the join, no task is unfinished after it, and after it neither the
\* shared collections, the counter nor the tasks change.
C11_BlockingJoin ==
  /\ [](Joined => \A b \in Starts : tpc[b] = "done")
  /\ [](~Joined =>
          /\ ret = "none" /\ num_returned_samples = 0
          /\ lp_ratios = <<>> /\ samples = <<>> /\ blocks = <<>>
          /\ weight_vals = <<>> /\ rng = <<>> /\ draw_i = 0
          /\ ValueRows(param_out) = {})
  /\ [][Joined => UNCHANGED <<shared, tasks>>]_vars

C11_Witness ==
  /\ pc = "draw" /\ draw_i > 0
  /\ Cardinality(Starts) = MaxPaths
  /\ successful_pathfinders = MaxPaths

\* C12: the call ends only by returning, SOFTWARE exactly with zero
\* successes and OK exactly with at least one, and the resampling phase
\* is over after num_multi_draws draws, so that the timing report and the
\* return are reached.
C12_Pipeline ==
  /\ ret = SOFTWARE => (pc = "failed" /\ successful_pathfinders = 0)
  /\ ret = OK => (pc = "done" /\ successful_pathfinders >= 1)
  /\ pc \in {"failed", "done"} => ret # "none"
  /\ pc # "aborted"
  /\ pc = "draw" => draw_i <= num_multi_draws

\* path + i, limb by limb
ExpectedStream(i) ==
  <<(path[1] + ((path[2] + i) \div Limb)) % Limb, (path[2] + i) % Limb>>

\* C13: every call for index i gets random_seed, stream id path + i
\* (modulo 2^32) and init[i], whichever task makes it and whenever; two
\* indices never get the same stream id.
C13_PathArguments ==
  \A i \in Paths : \A k \in 1 .. Len(single_calls[i]) :
    /\ single_calls[i][k].seed = random_seed
    /\ single_calls[i][k].stream = ExpectedStream(i)
    /\ single_calls[i][k].init = i
    /\ \A j \in Paths \ {i} : \A l \in 1 .. Len(single_calls[j]) :
         single_calls[j][l].stream # single_calls[i][k].stream

C13_Witness ==
  /\ Joined
  /\ path = U32(Limb - 1, Limb - 1)
  /\ \A i \in Paths : Len(single_calls[i]) = 1
  /\ num_paths = MaxPaths
  /\ cuts # {}

\* C14: the k-th draw row is the column selected by the k-th output of
\* the generator made from (random_seed, path) and the weight vector: the
\* rows are a function of seed, offset, aggregated set and count alone.
C14_Determinism ==
  Resampling =>
    /\ Cardinality(ValueRows(param_out)) = draw_i
    /\ \A k \in 1 .. draw_i :
         param_out[1 + k] =
           <<"values",
             samples[DrawIndex([seed |-> random_seed, stream |-> path,
                                n |-> k - 1], weight_vals) + 1]>>

C14_Witness ==
  /\ pc = "done"
  /\ draw_i = MaxMultiDraws
  /\ num_returned_samples >= 2
  /\ \E k \in 1 .. Len(weight_vals) : weight_vals[k] > 0

\* C15: each successful path's ratios, and its sample columns, stand in
\* the aggregate as one contiguous run in the path's own order.
C15_BlocksIntact ==
  Aggregated =>
    \A i \in Paths : Succeeded(i) =>
      LET n == single_ret[i].n
      IN  /\ \E o \in 0 .. (Len(lp_ratios) - n) :
               \A j \in 1 .. n : lp_ratios[o + j] = <<"ratio", i, j>>
          /\ \E o \in 0 .. (Len(samples) - n) :
               \A j \in 1 .. n : samples[o + j] = <<"col", i, j>>

\* the real number t is the integer v
IsValue(t, v) == t.num * t.num * t.rad = v * v * t.den * t.den

\* n is a multiple of 5 and a perfect square
ExactN(n) == n % 5 = 0 /\ \E r \in 1 .. n : r * r = n

\* C16: the tail length is 20 for N = 100 and 150 for N = 2500; for N a
\* perfect square and multiple of 5 it is N / 5 up to 225 and 3 * sqrt(N)
\* from 225 on.
C16_TailLength ==
  pc = "tail_out" =>
    LET n == num_returned_samples
    IN  /\ n = 100 => IsValue(tail_len, 20)
        /\ n = 2500 => IsValue(tail_len, 150)
        /\ (ExactN(n) /\ n <= 225) => IsValue(tail_len, n \div 5)
        /\ (ExactN(n) /\ n >= 225) =>
             \E r \in 1 .. n : r * r = n /\ IsValue(tail_len, 3 * r)

C16_Witness ==
  /\ pc = "tail_out"
  /\ num_returned_samples = 2500
  /\ tail_len # <<>>

\* the log lines naming index i as failed
FailedLines(i) ==
  {k \in 1 .. Len(log) : Len(log[k]) = 3 /\ log[k][2] = i}

\* C17: after the join the collections hold one entry per path that ran
\* and did not fail and none of a failed path; each failed path that ran
\* has exactly one log line naming it.
C17_FailedExcluded ==
  Joined =>
    /\ Len(individual_samples) = Cardinality({i \in Paths : Succeeded(i)})
    /\ Len(individual_lp_ratios) = Cardinality({i \in Paths : Succeeded(i)})
    /\ \A k \in 1 .. Len(individual_samples) :
         Succeeded(PathOf(individual_samples[k]))
    /\ \A k \in 1 .. Len(individual_lp_ratios) :
         Succeeded(PathOf(individual_lp_ratios[k]))
    /\ \A i \in Paths :
         Cardinality(FailedLines(i)) =
           IF Len(single_calls[i]) > 0 /\ single_ret[i].status = SOFTWARE
             THEN 1 ELSE 0

C17_Witness ==
  /\ Joined
  /\ \E i \in Paths : Succeeded(i)
  /\ \E i \in Paths :
       Len(single_calls[i]) > 0 /\ single_ret[i].status = SOFTWARE

RECURSIVE CanonicalFrom(_)
\* the sample columns of the successful paths in index order, from path i
CanonicalFrom(i) ==
  IF i >= num_paths THEN <<>>
  ELSE (IF Succeeded(i) THEN SamplesOf(i, single_ret[i].n) ELSE <<>>)
         \o CanonicalFrom(i + 1)

AllEqual(w) == \A k \in 1 .. Len(w) : w[k] = w[1]

\* C18: the draw rows do not depend on the order in which the paths
\* appended: with positive weights that are the same for every column (and
\* ratios and samples collected in one order), each row is the column the
\* drawn index selects when the paths append in index order.
C18_ScheduleIndependent ==
  (/\ Resampling
   /\ AllEqual(weight_vals) /\ weight_vals[1] > 0
   /\ \A k \in 1 .. Len(individual_samples) :
        PathOf(individual_lp_ratios[k]) = PathOf(individual_samples[k])) =>
    \A k \in 1 .. draw_i :
      param_out[1 + k] =
        <<"values",
          CanonicalFrom(0)[DrawIndex([seed |-> random_seed, stream |-> path,
                                      n |-> k - 1], weight_vals) + 1]>>

\* C19: after the join a path that ran is logged as failed exactly when
\* its status is SOFTWARE; with any other status its ratios and samples
\* are collected and its evaluation count is added.
C19_OnlySoftwareFails ==
  Joined =>
    /\ \A i \in Paths : Len(single_calls[i]) > 0 =>
         /\ (FailedLines(i) # {}) <=> (single_ret[i].status = SOFTWARE)
         /\ single_ret[i].status # SOFTWARE =>
              /\ \E k \in 1 .. Len(individual_lp_ratios) :
                   individual_lp_ratios[k] = RatiosOf(i, single_ret[i].n)
              /\ \E k \in 1 .. Len(individual_samples) :
                   individual_samples[k] = SamplesOf(i, single_ret[i].n)
    /\ lp_calls = SumOver([i \in Paths |-> single_ret[i].evals],
                          {i \in Paths : Succeeded(i)})

C19_Witness ==
  /\ Aggregated
  /\ \E i \in Paths :
       /\ single_ret[i].status = DATAERR
       /\ \E k \in 1 .. Len(samples) : samples[k] = <<"col", i, 1>>
  /\ \E i \in Paths : single_ret[i].status = OK

\* the arguments of the call a task is in
RunningArgs(b) == single_calls[iter[b]][Len(single_calls[iter[b]])]

\* C20: a running path holds the per-path sinks of its own index only, so
\* two running paths never share one; while the paths run the combined
\* parameter sink and the diagnostic sink hold the header row and nothing
\* is added to them.
C20_SinkIsolation ==
  /\ \A b \in Starts : tpc[b] = "running" =>
       /\ RunningArgs(b).init_writer = iter[b]
       /\ RunningArgs(b).param_writer = iter[b]
       /\ RunningArgs(b).diag_writer = iter[b]
       /\ \A c \in Starts \ {b} : tpc[c] = "running" =>
            /\ RunningArgs(c).init_writer # RunningArgs(b).init_writer
            /\ RunningArgs(c).param_writer # RunningArgs(b).param_writer
            /\ RunningArgs(c).diag_writer # RunningArgs(b).diag_writer
  /\ pc = "parallel" => (Len(param_out) = 1 /\ Len(diag_out) = 1)
  /\ ~Joined => ValueRows(param_out) = {}

C20_Witness ==
  /\ pc = "parallel"
  /\ Cardinality({b \in Starts : tpc[b] = "running"}) = MaxPaths

====
